---- MODULE Spec2Model ----
(***************************************************************************)
(* Model of main.py: a single-locus population-genetics simulation.        *)
(*                                                                         *)
(* Python strings are modelled as sequences of one-character strings, so   *)
(* "A" + "a" is <<"A">> \o <<"a">> and list(p) is p itself.  Probabilities *)
(* and uniform draws are in percent.  Floats produced by true division are *)
(* exact fractions [num, den].                                             *)
(***************************************************************************)
EXTENDS Integers, Sequences, FiniteSets

\* ---- bounds of the model ----
MaxInit == 4          \* largest N_INITIAL_ORGANISMS explored
MaxGen == 2           \* largest N_GENERATIONS explored
MaxOffspring == 3     \* largest value drawn by howManyOffspring
MaxCapacity == 2      \* scaled-down carrying capacity

\* ---- parameters (main.py lines 8-35) ----
DOMINANT_ALLELE == <<"A">>
RECESSIVE_ALLELE == <<"a">>
CARRYING_CAPACITY == MaxCapacity

\* survival probabilities the run may be configured with, in percent
ProbValues == {50, 100}
\* values of np.random.uniform() in [0, 1), in percent
Draws == {0, 50}

VARIABLES
  HOM_DOM_SURV_PROB, HET_SURV_PROB, HOM_REC_SURV_PROB,
  N_GENERATIONS,
  GENERATIONAL_DATA, CURRENT_POPULATION, NEW_POPULATION,
  generation_num, l, l1, l2, pairnum,
  HOM_DOM_N_LIST, HET_N_LIST, HOM_REC_N_LIST,
  DOM_ALLELE_N, REC_ALLELE_N, TOTAL_N,
  pc

config == <<HOM_DOM_SURV_PROB, HET_SURV_PROB, HOM_REC_SURV_PROB,
            N_GENERATIONS>>
series == <<HOM_DOM_N_LIST, HET_N_LIST, HOM_REC_N_LIST,
            DOM_ALLELE_N, REC_ALLELE_N, TOTAL_N>>
mating == <<l, l1, l2, pairnum>>
vars == <<config, series, mating, GENERATIONAL_DATA, CURRENT_POPULATION,
          NEW_POPULATION, generation_num, pc>>

\* ---- genotype predicates (lines 39-52) ----
isHomDom(org) == org = DOMINANT_ALLELE \o DOMINANT_ALLELE

isHomRec(org) == org = RECESSIVE_ALLELE \o RECESSIVE_ALLELE

isHetOneOrder(org) == org = DOMINANT_ALLELE \o RECESSIVE_ALLELE
isHet(org) ==
  \/ org = DOMINANT_ALLELE \o RECESSIVE_ALLELE
  \/ org = RECESSIVE_ALLELE \o DOMINANT_ALLELE

\* ---- survival (lines 63-75) ----
\* the value of `probability` while no if has bound it (UnboundLocalError on use)
Unbound == 0 - 1

\* the three independent ifs of checkSurvival: the last one that matches wins
probabilityWrongHet(genotype) ==
  LET p1 == IF isHomDom(genotype) THEN HOM_DOM_SURV_PROB ELSE Unbound
      p2 == IF isHet(genotype) THEN HOM_REC_SURV_PROB ELSE p1
  IN  IF isHomRec(genotype) THEN HOM_REC_SURV_PROB ELSE p2
probability(genotype) ==
  LET p1 == IF isHomDom(genotype) THEN HOM_DOM_SURV_PROB ELSE Unbound
      p2 == IF isHet(genotype) THEN HET_SURV_PROB ELSE p1
  IN  IF isHomRec(genotype) THEN HOM_REC_SURV_PROB ELSE p2

\* u is the value drawn by np.random.uniform()
checkSurvivalNotStrict(genotype, u) == u <= probability(genotype)
checkSurvival(genotype, u) == u < probability(genotype)

\* [genotype for genotype in pop if checkSurvival(genotype)], the i-th trial
\* drawing u[i]
RECURSIVE survivors(_, _)
survivors(pop, u) ==
  IF pop = <<>> THEN <<>>
  ELSE (IF checkSurvival(Head(pop), Head(u)) THEN <<Head(pop)>> ELSE <<>>)
         \o survivors(Tail(pop), Tail(u))

\* checkSurvival raises when none of its three ifs bound `probability`
raises(pop) == \E i \in 1..Len(pop) : probability(pop[i]) = Unbound

\* ---- reproduction (lines 78-88) ----
\* round(np.random.normal(...)): any integer, negative ones included
howManyOffspring == (0 - 1)..MaxOffspring

\* the genotypes generateOffspring(p1, p2) can return
generateOffspringBothFromP1(p1, p2) ==
  { <<p1[i]>> \o <<p1[j]>> : i \in 1..Len(p1), j \in 1..Len(p2) }
generateOffspring(p1, p2) ==
  { <<p1[i]>> \o <<p2[j]>> : i \in 1..Len(p1), j \in 1..Len(p2) }

\* ---- helpers for the mating step (lines 121-127) ----
\* random.shuffle(list(range(n))): the orders the shuffle can leave
shuffles(n) ==
  { f \in [1..n -> 0..(n - 1)] : \A i, j \in 1..n : f[i] = f[j] => i = j }

\* s[start::2] for start in {0, 1}
strideNoOffset(s, start) ==
  [i \in 1..((Len(s) + 1) \div 2) |-> s[2 * (i - 1) + 1]]
stride(s, start) ==
  [i \in 1..((Len(s) - start + 1) \div 2) |-> s[start + 2 * (i - 1) + 1]]

min(a, b) == IF a < b THEN a ELSE b

\* while len(CURRENT_POPULATION) > CARRYING_CAPACITY (line 106)
overCapacityOffByOne(pop) == Len(pop) > CARRYING_CAPACITY + 1
overCapacity(pop) == Len(pop) > CARRYING_CAPACITY

\* ---- statistics helpers (lines 159-203) ----
\* the counting loop over one generation (lines 161-181)
RECURSIVE tally(_, _)
tally(generation, acc) ==
  IF generation = <<>> THEN acc
  ELSE LET organism == Head(generation)
           next ==
             IF isHomDom(organism)
               THEN [acc EXCEPT !.n_hom_dom = @ + 1, !.n_dom_allele = @ + 2]
             ELSE IF isHomRec(organism)
               THEN [acc EXCEPT !.n_hom_rec = @ + 1, !.n_rec_allele = @ + 2]
             ELSE IF isHet(organism)
               THEN [acc EXCEPT !.n_het = @ + 1, !.n_dom_allele = @ + 1,
                                !.n_rec_allele = @ + 1]
             ELSE acc
       IN  tally(Tail(generation), next)

zeroCounts == [n_hom_dom |-> 0, n_het |-> 0, n_hom_rec |-> 0,
               n_dom_allele |-> 0, n_rec_allele |-> 0]

\* lines 192-194: <<genotype_total, allele_total>> after the zero guard
zeroGuardMissing(genotype_total, allele_total) ==
  <<genotype_total, allele_total>>
zeroGuard(genotype_total, allele_total) ==
  IF genotype_total = 0 \/ allele_total = 0
    THEN <<1, 1>>
    ELSE <<genotype_total, allele_total>>

\* a / b of Python 3 for b # 0, as an exact fraction; StatsGeneration models
\* the ZeroDivisionError raised for b = 0
trueDiv(a, b) == [num |-> a, den |-> b]

\* ---- initial state (lines 8-35, 92, 95) ----
\* N_INITIAL_ORGANISMS is read once, at line 95, to build the population
Init ==
  /\ HOM_DOM_SURV_PROB \in ProbValues
  /\ HET_SURV_PROB \in ProbValues
  /\ HOM_REC_SURV_PROB \in ProbValues
  /\ N_GENERATIONS \in 0..MaxGen
  /\ GENERATIONAL_DATA = <<>>
  /\ \E N_INITIAL_ORGANISMS \in 0..MaxInit :
       CURRENT_POPULATION =
         [organism \in 1..N_INITIAL_ORGANISMS |->
            DOMINANT_ALLELE \o RECESSIVE_ALLELE]
  /\ NEW_POPULATION = <<>>
  /\ generation_num = 0
  /\ l = <<>> /\ l1 = <<>> /\ l2 = <<>> /\ pairnum = 0
  /\ HOM_DOM_N_LIST = <<>> /\ HET_N_LIST = <<>> /\ HOM_REC_N_LIST = <<>>
  /\ DOM_ALLELE_N = <<>> /\ REC_ALLELE_N = <<>> /\ TOTAL_N = <<>>
  /\ pc = "select"

\* ---- main simulation loop (lines 99-142) ----
\* generation_num counts the iterations of the for loop started so far

\* for generation_num in range(N_GENERATIONS): another iteration follows
loopContinuesUntilExtinct ==
  /\ generation_num < N_GENERATIONS
  /\ (generation_num = 0 \/ CURRENT_POPULATION # <<>>)
loopContinues == generation_num < N_GENERATIONS

\* line 101: the selection pass of one generation
Select ==
  /\ pc = "select"
  /\ loopContinues
  /\ IF raises(CURRENT_POPULATION)
       THEN /\ pc' = "error"
            /\ UNCHANGED CURRENT_POPULATION
       ELSE /\ \E u \in [1..Len(CURRENT_POPULATION) -> Draws] :
                 CURRENT_POPULATION' = survivors(CURRENT_POPULATION, u)
            /\ pc' = "capacity"
  /\ UNCHANGED <<config, series, mating, GENERATIONAL_DATA, NEW_POPULATION,
                 generation_num>>

\* lines 106-107: one pass of the carrying-capacity loop
CapacityPass ==
  /\ pc = "capacity"
  /\ overCapacity(CURRENT_POPULATION)
  /\ IF raises(CURRENT_POPULATION)
       THEN /\ pc' = "error"
            /\ UNCHANGED CURRENT_POPULATION
       ELSE /\ \E u \in [1..Len(CURRENT_POPULATION) -> Draws] :
                 CURRENT_POPULATION' = survivors(CURRENT_POPULATION, u)
            /\ pc' = "capacity"
  /\ UNCHANGED <<config, series, mating, GENERATIONAL_DATA, NEW_POPULATION,
                 generation_num>>

\* lines 106, 111, 114: the loop exits, the population is recorded
Record ==
  /\ pc = "capacity"
  /\ ~overCapacity(CURRENT_POPULATION)
  /\ GENERATIONAL_DATA' = Append(GENERATIONAL_DATA, CURRENT_POPULATION)
  /\ NEW_POPULATION' = <<>>
  /\ pc' = "mate"
  /\ UNCHANGED <<config, series, mating, CURRENT_POPULATION, generation_num>>

\* lines 121-127: shuffle the indices and split them into two groups
Mate ==
  /\ pc = "mate"
  /\ \E s \in shuffles(Len(CURRENT_POPULATION)) :
       /\ l' = s
       /\ l1' = stride(s, 0)
       /\ l2' = stride(s, 1)
  /\ pairnum' = 0
  /\ pc' = "reproduce"
  /\ UNCHANGED <<config, series, GENERATIONAL_DATA, CURRENT_POPULATION,
                 NEW_POPULATION, generation_num>>

\* lines 134-139: one iteration of the loop over the pairs
Reproduce ==
  /\ pc = "reproduce"
  /\ pairnum < min(Len(l1), Len(l2))
  /\ \E n \in howManyOffspring :
       \E kids \in [1..n -> generateOffspring(
                               CURRENT_POPULATION[l1[pairnum + 1] + 1],
                               CURRENT_POPULATION[l2[pairnum + 1] + 1])] :
         NEW_POPULATION' = NEW_POPULATION \o kids
  /\ pairnum' = pairnum + 1
  /\ UNCHANGED <<config, series, l, l1, l2, GENERATIONAL_DATA,
                 CURRENT_POPULATION, generation_num, pc>>

\* lines 141-142: the offspring become the current population
Advance ==
  /\ pc = "reproduce"
  /\ pairnum >= min(Len(l1), Len(l2))
  /\ CURRENT_POPULATION' = NEW_POPULATION
  /\ NEW_POPULATION' = <<>>
  /\ generation_num' = generation_num + 1
  /\ pc' = "select"
  /\ UNCHANGED <<config, series, mating, GENERATIONAL_DATA>>

\* ---- statistics (lines 148-203) ----
\* lines 148-157: the for loop is exhausted, the series start empty
StartStats ==
  /\ pc = "select"
  /\ ~loopContinues
  /\ HOM_DOM_N_LIST' = <<>> /\ HET_N_LIST' = <<>> /\ HOM_REC_N_LIST' = <<>>
  /\ DOM_ALLELE_N' = <<>> /\ REC_ALLELE_N' = <<>> /\ TOTAL_N' = <<>>
  /\ pc' = "stats"
  /\ UNCHANGED <<config, mating, GENERATIONAL_DATA, CURRENT_POPULATION,
                 NEW_POPULATION, generation_num>>

\* lines 159-203: one iteration of the loop over GENERATIONAL_DATA
StatsGeneration ==
  /\ pc = "stats"
  /\ Len(TOTAL_N) < Len(GENERATIONAL_DATA)
  /\ LET generation == GENERATIONAL_DATA[Len(TOTAL_N) + 1]
         n == tally(generation, zeroCounts)
         totals == zeroGuard(n.n_hom_dom + n.n_het + n.n_hom_rec,
                             n.n_dom_allele + n.n_rec_allele)
         genotype_total == totals[1]
         allele_total == totals[2]
     IN  IF genotype_total = 0 \/ allele_total = 0
           THEN /\ pc' = "error"
                /\ UNCHANGED series
           ELSE /\ HOM_DOM_N_LIST' =
                     Append(HOM_DOM_N_LIST,
                            trueDiv(100 * n.n_hom_dom, genotype_total))
                /\ HOM_REC_N_LIST' =
                     Append(HOM_REC_N_LIST,
                            trueDiv(100 * n.n_hom_rec, genotype_total))
                /\ HET_N_LIST' =
                     Append(HET_N_LIST,
                            trueDiv(100 * n.n_het, genotype_total))
                /\ DOM_ALLELE_N' =
                     Append(DOM_ALLELE_N,
                            trueDiv(100 * n.n_dom_allele, allele_total))
                /\ REC_ALLELE_N' =
                     Append(REC_ALLELE_N,
                            trueDiv(100 * n.n_rec_allele, allele_total))
                /\ TOTAL_N' = Append(TOTAL_N, genotype_total)
                /\ pc' = "stats"
  /\ UNCHANGED <<config, mating, GENERATIONAL_DATA, CURRENT_POPULATION,
                 NEW_POPULATION, generation_num>>

\* the statistics loop is exhausted; only plotting remains
FinishOneEarly ==
  /\ pc = "stats"
  /\ Len(TOTAL_N) + 1 >= Len(GENERATIONAL_DATA)
  /\ pc' = "done"
  /\ UNCHANGED <<config, series, mating, GENERATIONAL_DATA,
                 CURRENT_POPULATION, NEW_POPULATION, generation_num>>
Finish ==
  /\ pc = "stats"
  /\ Len(TOTAL_N) >= Len(GENERATIONAL_DATA)
  /\ pc' = "done"
  /\ UNCHANGED <<config, series, mating, GENERATIONAL_DATA,
                 CURRENT_POPULATION, NEW_POPULATION, generation_num>>

Next ==
  \/ Select
  \/ CapacityPass
  \/ Record
  \/ Mate
  \/ Reproduce
  \/ Advance
  \/ StartStats
  \/ StatsGeneration
  \/ Finish

Spec == Init /\ [][Next]_vars

\* a pass of the capacity loop in which at least one organism dies
CapacityCull == CapacityPass /\ Len(CURRENT_POPULATION') < Len(CURRENT_POPULATION)

\* the script runs sequentially, and an organism whose survival probability
\* is below 1 does not pass its trial forever
FairSpec == Spec /\ WF_vars(Next) /\ WF_vars(CapacityCull)

\* ======================= properties =======================
AllGenotypes ==
  { a \o b : a \in {DOMINANT_ALLELE, RECESSIVE_ALLELE},
             b \in {DOMINANT_ALLELE, RECESSIVE_ALLELE} }

Last(s) == s[Len(s)]
Organisms(pop) == { pop[i] : i \in 1..Len(pop) }
Alleles(g) == { g[i] : i \in 1..Len(g) }
CountOf(pop, S) == Cardinality({ i \in 1..Len(pop) : pop[i] \in S })
Extinct(i) == GENERATIONAL_DATA[i] = <<>>

\* C1: every population appended to GENERATIONAL_DATA has at most
\* CARRYING_CAPACITY organisms, and every entry of TOTAL_N lies in
\* 0..CARRYING_CAPACITY.
C1_RecordedWithinCapacity ==
  /\ \A i \in 1..Len(GENERATIONAL_DATA) :
       Len(GENERATIONAL_DATA[i]) <= CARRYING_CAPACITY
  /\ \A i \in 1..Len(TOTAL_N) : TOTAL_N[i] \in 0..CARRYING_CAPACITY

\* a generation born from reproduction is recorded at full capacity and its
\* total has been computed
C1_Witness ==
  /\ Len(TOTAL_N) >= 2
  /\ Len(GENERATIONAL_DATA[2]) = CARRYING_CAPACITY
  /\ TOTAL_N[2] = CARRYING_CAPACITY

\* C2: every entry of TOTAL_N equals the raw number of organisms of that
\* generation's recorded population (0 for an extinct generation).
C2_TotalIsRawCount ==
  \A i \in 1..Len(TOTAL_N) : TOTAL_N[i] = Len(GENERATIONAL_DATA[i])

\* C3: the statistics never divide by zero, and an extinct generation has
\* 0 for all three genotype percentages and both allele percentages.
C3_NoDivisionByZero ==
  /\ pc # "error"
  /\ \A i \in 1..Len(TOTAL_N) :
       /\ \A L \in {HOM_DOM_N_LIST, HET_N_LIST, HOM_REC_N_LIST,
                    DOM_ALLELE_N, REC_ALLELE_N} :
            L[i].den # 0
       /\ Extinct(i) =>
            \A L \in {HOM_DOM_N_LIST, HET_N_LIST, HOM_REC_N_LIST,
                      DOM_ALLELE_N, REC_ALLELE_N} : L[i].num = 0

\* the statistics of an extinct generation have been computed
C3_Witness ==
  /\ pc = "stats"
  /\ Len(TOTAL_N) >= 1
  /\ Extinct(Len(TOTAL_N))
  /\ ~Extinct(1)

\* C4: when the run finishes, GENERATIONAL_DATA and the six series have
\* exactly N_GENERATIONS entries, the i-th entry of each series being that
\* of the i-th recorded generation (none skipped; all empty when
\* N_GENERATIONS = 0).
C4_OneEntryPerGeneration ==
  pc = "done" =>
    /\ Len(GENERATIONAL_DATA) = N_GENERATIONS
    /\ \A L \in {HOM_DOM_N_LIST, HET_N_LIST, HOM_REC_N_LIST,
                 DOM_ALLELE_N, REC_ALLELE_N} :
         Len(L) = N_GENERATIONS
    /\ Len(TOTAL_N) = N_GENERATIONS
    /\ \A i \in 1..N_GENERATIONS :
         LET g == GENERATIONAL_DATA[i]
             hd == CountOf(g, {<<"A", "A">>})
             hr == CountOf(g, {<<"a", "a">>})
             ht == CountOf(g, {<<"A", "a">>, <<"a", "A">>})
         IN  /\ HOM_DOM_N_LIST[i].num = 100 * hd
             /\ HOM_REC_N_LIST[i].num = 100 * hr
             /\ HET_N_LIST[i].num = 100 * ht
             /\ DOM_ALLELE_N[i].num = 100 * (2 * hd + ht)
             /\ REC_ALLELE_N[i].num = 100 * (2 * hr + ht)
             /\ g # <<>> => /\ TOTAL_N[i] = Len(g)
                            /\ HOM_DOM_N_LIST[i].den = Len(g)
                            /\ DOM_ALLELE_N[i].den = 2 * Len(g)

\* a finished run of MaxGen generations whose last generation is extinct
\* and whose first is not
C4_Witness ==
  /\ pc = "done"
  /\ N_GENERATIONS >= 2
  /\ ~Extinct(1)
  /\ Extinct(N_GENERATIONS)

\* C5: once an empty population is recorded, mating forms no pair, every later
\* recorded population is empty too, and the run still records all
\* N_GENERATIONS generations and finishes.
C5_ExtinctionAbsorbing ==
  /\ [](\A i, j \in 1..Len(GENERATIONAL_DATA) :
          (i < j /\ Extinct(i)) => Extinct(j))
  /\ []((pc = "reproduce" /\ CURRENT_POPULATION = <<>>) =>
          (l = <<>> /\ min(Len(l1), Len(l2)) = 0 /\ NEW_POPULATION = <<>>))
  /\ ((GENERATIONAL_DATA # <<>> /\ Last(GENERATIONAL_DATA) = <<>>)
        ~> (pc = "done" /\ Len(GENERATIONAL_DATA) = N_GENERATIONS))

\* an empty generation is followed by another recorded (empty) generation
C5_Witness ==
  /\ Len(GENERATIONAL_DATA) >= 2
  /\ Extinct(1)
  /\ pc = "done"

AllBelowOne ==
  /\ HOM_DOM_SURV_PROB < 100
  /\ HET_SURV_PROB < 100
  /\ HOM_REC_SURV_PROB < 100

RECURSIVE isSubsequence(_, _)
isSubsequence(a, b) ==
  IF a = <<>> THEN TRUE
  ELSE IF b = <<>> THEN FALSE
  ELSE IF Head(a) = Head(b) THEN isSubsequence(Tail(a), Tail(b))
  ELSE isSubsequence(a, Tail(b))

\* C6: with all three survival probabilities below 1, a capacity loop entered
\* above capacity is eventually left with at most CARRYING_CAPACITY organisms
\* (given that an organism below probability 1 does not survive forever), and
\* a pass of the loop only removes organisms.
C6_CapacityLoopTerminates ==
  /\ ((pc = "capacity" /\ overCapacity(CURRENT_POPULATION) /\ AllBelowOne)
        ~> (pc = "mate" /\ Len(CURRENT_POPULATION) <= CARRYING_CAPACITY))
  /\ [][(pc = "capacity" /\ pc' = "capacity") =>
          isSubsequence(CURRENT_POPULATION', CURRENT_POPULATION)]_vars

\* the loop is entered above capacity, after a reproduction, with every
\* probability below 1
C6_Witness ==
  /\ pc = "capacity"
  /\ overCapacity(CURRENT_POPULATION)
  /\ HOM_DOM_SURV_PROB = 50 /\ HET_SURV_PROB = 50 /\ HOM_REC_SURV_PROB = 50
  /\ generation_num >= 1

\* the organisms of pop whose genotype is configured to survive with
\* probability exactly 1
Immortals(pop) ==
  { i \in 1..Len(pop) :
      \/ pop[i] = <<"A", "A">> /\ HOM_DOM_SURV_PROB = 100
      \/ pop[i] \in {<<"A", "a">>, <<"a", "A">>} /\ HET_SURV_PROB = 100
      \/ pop[i] = <<"a", "a">> /\ HOM_REC_SURV_PROB = 100 }

Stuck ==
  /\ pc = "capacity"
  /\ Cardinality(Immortals(CURRENT_POPULATION)) > CARRYING_CAPACITY

\* C7: once the capacity loop holds more than CARRYING_CAPACITY organisms
\* whose survival probability is exactly 1, no step leaves the loop: the
\* generation is not recorded and the run does not finish.
C7_CapacityLoopHangs ==
  [][Stuck => (Stuck' /\ pc' # "done"
               /\ GENERATIONAL_DATA' = GENERATIONAL_DATA)]_vars

\* the loop is stuck on a population born in the run, not the initial one
C7_Witness ==
  /\ Stuck
  /\ generation_num >= 1
  /\ Len(GENERATIONAL_DATA) = generation_num

\* C8: every genotype over {Dominant, Recessive} satisfies exactly one of
\* isHomDom, isHet, isHomRec; so checkSurvival always finds a probability and
\* the statistics count every organism in exactly one category.
C8_GenotypePartition ==
  /\ \A g \in AllGenotypes :
       Cardinality({ k \in 1..3 :
                       \/ k = 1 /\ isHomDom(g)
                       \/ k = 2 /\ isHet(g)
                       \/ k = 3 /\ isHomRec(g) }) = 1
  /\ pc # "error"
  /\ \A g \in Organisms(CURRENT_POPULATION) : probability(g) \in ProbValues
  /\ \A i \in 1..Len(TOTAL_N) :
       HOM_DOM_N_LIST[i].num + HET_N_LIST[i].num + HOM_REC_N_LIST[i].num
         = 100 * Len(GENERATIONAL_DATA[i])

\* a generation holding a recessive-first heterozygote has been counted
C8_Witness ==
  /\ Len(TOTAL_N) = 2
  /\ <<"a", "A">> \in Organisms(GENERATIONAL_DATA[2])
  /\ <<"a", "a">> \in Organisms(GENERATIONAL_DATA[2])

BornOf(org, pop, k) ==
  /\ Len(org) = 2
  /\ org[1] \in Alleles(pop[l1[k] + 1])
  /\ org[2] \in Alleles(pop[l2[k] + 1])

\* C10: an offspring takes its first allele from its first parent and its
\* second from its second parent; every organism of every current, new and
\* recorded population is a two-allele genotype, and every organism a
\* generation starts with was born from a pair mated in the generation before.
C10_OffspringFromParents ==
  /\ \A g \in Organisms(CURRENT_POPULATION) \cup Organisms(NEW_POPULATION) :
       g \in AllGenotypes
  /\ \A i \in 1..Len(GENERATIONAL_DATA) :
       \A g \in Organisms(GENERATIONAL_DATA[i]) : g \in AllGenotypes
  /\ pc = "reproduce" =>
       \A g \in Organisms(NEW_POPULATION) :
         \E k \in 1..pairnum : BornOf(g, CURRENT_POPULATION, k)
  /\ (pc = "select" /\ generation_num >= 1) =>
       /\ Len(GENERATIONAL_DATA) = generation_num
       /\ \A g \in Organisms(CURRENT_POPULATION) :
            \E k \in 1..min(Len(l1), Len(l2)) :
              BornOf(g, Last(GENERATIONAL_DATA), k)

\* a generation starts with the offspring of two different homozygotes
C10_Witness ==
  /\ pc = "select"
  /\ generation_num = 2
  /\ CURRENT_POPULATION # <<>>
  /\ Organisms(Last(GENERATIONAL_DATA)) = {<<"A", "A">>, <<"a", "a">>}

====
